---- MODULE Spec2Model ----
(***************************************************************************)
(* Collection & enrichment pipeline of the social listener: the two        *)
(* trigger paths of collector/app/main.py, the pagination loop and the     *)
(* save step of collector/app/collectors/bluesky.py, the enrichment stage  *)
(* of collector/app/nlp/processor.py, over a PostgreSQL store in READ      *)
(* COMMITTED mode (one transaction per session, row locks held to the end  *)
(* of the transaction, unique indexes that make a second inserter wait).   *)
(*                                                                         *)
(* Both trigger paths are coroutines on one event loop: control changes    *)
(* hands only at an awaited database statement, so there is one action per *)
(* database statement, each carrying the synchronous code that follows it. *)
(* The platform fetch is a synchronous call and has its own action.        *)
(***************************************************************************)
EXTENDS Integers, Sequences, FiniteSets, TLC

----------------------------------------------------------------------------
(* Bounds of the model *)

NumListeners == 2      \* listener rows
NumItems == 2          \* platform items under concurrent triggers
MaxTriggers == 2       \* triggers started
PageItems == 4         \* platform items, in the pagination environment
PageTriggers == 2      \* triggers started, in the pagination environment
PageFetches == 4       \* pages per run, in the pagination environment
RaceFetches == 2       \* pages per run, under concurrent triggers
MaxCompound == 6000    \* largest |compound| drawn, in units of 0.00001
MaxHour == 23          \* latest wall-clock hour of a source timestamp
MaxOffset == 2         \* largest |UTC offset| of a source timestamp, in hours

(* Pagination settings, bluesky.py:17-19, scaled down from 500/100/100 with *)
(* their order kept: REGULAR_SCRAPE_LIMIT = PAGE_SIZE < INITIAL_SCRAPE_MAX. *)
INITIAL_SCRAPE_MAX_POSTS == 3
REGULAR_SCRAPE_LIMIT == 2
PAGE_SIZE == 2

ListenerIds == 1..NumListeners
Procs == {"sched", "manual"}
NULL == "NULL"

Min(a, b) == IF a < b THEN a ELSE b

----------------------------------------------------------------------------
(* record.created_at, bluesky.py:241-249. A source timestamp is absent, or  *)
(* a string that is no ISO date, or an ISO date with a wall-clock time (in  *)
(* hours) and a zone designator: "Z", or an offset in hours.                *)
Absent == [kind |-> "absent", wall |-> 0, zulu |-> FALSE, offset |-> 0]
Garbage == [kind |-> "garbage", wall |-> 0, zulu |-> FALSE, offset |-> 0]
Iso(wall, zulu, offset) ==
  [kind |-> "iso", wall |-> wall, zulu |-> zulu, offset |-> offset]

(* post_created_at = None *)
Unset == [set |-> FALSE, value |-> 0]

(* record.created_at.replace("Z", "+00:00") *)
ReplaceZ(s) == IF s.zulu THEN [s EXCEPT !.zulu = FALSE, !.offset = 0] ELSE s

(* datetime.fromisoformat: an aware datetime (wall-clock time and UTC       *)
(* offset), or ValueError.                                                  *)
fromisoformat(s) ==
  IF s.kind = "iso" /\ ~s.zulu
    THEN [ok |-> TRUE, wall |-> s.wall, utcoffset |-> s.offset]
    ELSE [ok |-> FALSE, wall |-> 0, utcoffset |-> 0]

(* The parse of bluesky.py:241-249: dt.replace(tzinfo=None) keeps the wall- *)
(* clock fields of dt and drops its offset.                                 *)
parse_created_at(created_at) ==
  IF created_at.kind = "absent" THEN Unset
  ELSE LET dt == fromisoformat(ReplaceZ(created_at))
       IN  IF dt.ok THEN [set |-> TRUE, value |-> dt.wall] ELSE Unset

----------------------------------------------------------------------------
(* What the platform can say about an item (post_view): the text, the       *)
(* author and the creation time may differ between two fetches of the same  *)
(* uri, and so may the counters.                                            *)
PostViews ==
  { [text |-> "hello ann", handle |-> "h1", display_name |-> "H1",
     avatar |-> "a1", created_at |-> Iso(1, TRUE, 0), like_count |-> 0],
    [text |-> "hello ann", handle |-> "h1", display_name |-> "H1",
     avatar |-> "a1", created_at |-> Iso(1, TRUE, 0), like_count |-> 1],
    [text |-> NULL, handle |-> "h2", display_name |-> "H2",
     avatar |-> "a2", created_at |-> Absent, like_count |-> 1] }

(* A post_view whose record has no text and no created_at. *)
BareView ==
  [text |-> NULL, handle |-> "h2", display_name |-> "H2",
   avatar |-> "a2", created_at |-> Absent, like_count |-> 1]

(* A post_view with a text that names an entity. *)
TextView ==
  [text |-> "hello ann", handle |-> "h1", display_name |-> "H1",
   avatar |-> "a1", created_at |-> Iso(1, TRUE, 0), like_count |-> 0]

(* A post_view whose text names the same entity at two offsets. *)
EchoView ==
  [text |-> "ann and ann", handle |-> "h1", display_name |-> "H1",
   avatar |-> "a1", created_at |-> Iso(1, TRUE, 0), like_count |-> 0]

(* extract_entities: the spans of a text (a function of the text alone);    *)
(* the spans of a document do not overlap.                                  *)
extract_entities(text) ==
  IF text = "hello ann"
    THEN << [entity_type |-> "PERSON", normalized_text |-> "ann",
             text |-> "Ann", start_pos |-> 6] >>
  ELSE IF text = "ann and ann"
    THEN << [entity_type |-> "PERSON", normalized_text |-> "ann",
             text |-> "Ann", start_pos |-> 0],
            [entity_type |-> "PERSON", normalized_text |-> "ann",
             text |-> "ann", start_pos |-> 8] >>
  ELSE << >>

(* analyzer.polarity_scores(text)["compound"], sentiment.py:44-48: the      *)
(* compound score the lexicon gives a text, in units of 0.00001.            *)
polarity_scores(text) == IF text = "hello ann" THEN 44040 ELSE 0

(* round(compound, 4): to the nearest multiple of 0.0001. *)
Round4(compound) ==
  LET q == compound \div 10
      r == compound % 10
  IN  IF r >= 5 THEN 10 * (q + 1) ELSE 10 * q

(* sentiment.py:48-58: the label from the compound score, the score from    *)
(* its rounding.                                                            *)
SentimentResult(compound) ==
  [score |-> Round4(compound),
   label |-> IF compound >= 5000 THEN "positive"
             ELSE IF compound <= -5000 THEN "negative"
             ELSE "neutral"]

(* analyze_sentiment, sentiment.py:28-58. *)
analyze_sentiment(text) ==
  IF text = NULL THEN [score |-> 0, label |-> "neutral"]
  ELSE SentimentResult(polarity_scores(text))

----------------------------------------------------------------------------
VARIABLES
  env,            \* the environment, fixed by Init: what the platform can
                  \* return, how triggers arrive, the settings
  clock,          \* triggers started so far; datetime.utcnow() of a trigger
  listeners,      \* committed listeners table: id -> row
  posts,          \* committed posts table: a set of rows
  entities,       \* committed entities table
  post_entities,  \* committed post_entities table
  tx,             \* per process: the uncommitted writes of its session
  pc,             \* per process: the statement it is about to issue
  run,            \* per process: the local variables of its coroutine
  client,         \* the collector's cached platform client (_client)
  call            \* a call of a pure function on its own: input and result

vars == << env, clock, listeners, posts, entities, post_entities, tx, pc, run,
          client, call >>

fixed == << env, call >>
store == << listeners, posts, entities, post_entities >>

----------------------------------------------------------------------------
(* The session's transaction *)

ListenerCols == {"initial_scrape_completed", "has_new_content", "last_polled_at"}

NoListenerWrites == [l \in ListenerIds |-> {}]

(* The place of a listener row that was deleted: a row of the table has a   *)
(* platform (nullable=False), this one has none and is never selected.      *)
Deleted ==
  [is_active |-> FALSE, platform |-> NULL, rule_type |-> NULL,
   initial_scrape_completed |-> FALSE, has_new_content |-> FALSE,
   last_polled_at |-> 0]

Exists(l) == listeners[l] # Deleted

EmptyTx ==
  [posts |-> {}, entities |-> {}, post_entities |-> {},
   cols |-> NoListenerWrites,
   vals |-> [l \in ListenerIds |->
              [initial_scrape_completed |-> FALSE, has_new_content |-> FALSE,
               last_polled_at |-> 0]],
   aborted |-> FALSE]

(* The session after a statement of it raised a database error: PostgreSQL  *)
(* has aborted the transaction, its writes are gone and its locks free, and *)
(* every later statement raises until the rollback.                         *)
AbortedTx == [EmptyTx EXCEPT !.aborted = TRUE]

Ids(rows) == {r.id : r \in rows}

(* What session p reads: the committed rows, with its own versions on top. *)
ViewPosts(p) == {r \in posts : r.id \notin Ids(tx[p].posts)} \cup tx[p].posts
ViewEntities(p) == entities \cup tx[p].entities
ViewPostEntities(p) == post_entities \cup tx[p].post_entities

PostKey(r) == << r.platform, r.platform_post_id >>
EntityKey(r) == << r.entity_type, r.entity_text >>
(* A constraint that leaves the offset out. *)
OccKey_NoPos(r) == << r.post_id, r.entity_id >>

OccKey(r) == << r.post_id, r.entity_id, r.start_pos >>

(* Ids come from sequences; the model names a row by its key and the least  *)
(* number that tells it from the other rows of that key, so that the order  *)
(* of two inserts does not show in the ids.                                 *)
FreeId(used, k) ==
  << k, CHOOSE n \in 1..(Cardinality(used) + 1) : << k, n >> \notin used >>
AllPostIds == Ids(posts) \cup UNION {Ids(tx[q].posts) : q \in Procs}
AllEntityIds == Ids(entities) \cup UNION {Ids(tx[q].entities) : q \in Procs}
AllOccIds == Ids(post_entities) \cup UNION {Ids(tx[q].post_entities) : q \in Procs}

(* The other sessions holding an uncommitted insert of the key, or an        *)
(* uncommitted version of the row: the statement waits for them.            *)
PostHolders(p, key) ==
  {q \in Procs \ {p} : \E w \in tx[q].posts : PostKey(w) = key}
EntityHolders(p, key) ==
  {q \in Procs \ {p} : \E w \in tx[q].entities : EntityKey(w) = key}
OccHolders(p, key) ==
  {q \in Procs \ {p} : \E w \in tx[q].post_entities : OccKey(w) = key}
ListenerHolders(p, l) ==
  {q \in Procs \ {p} : tx[q].cols[l] # {}}

----------------------------------------------------------------------------
(* The coroutine of a trigger *)

NoView == [text |-> NULL, handle |-> NULL, display_name |-> NULL,
           avatar |-> NULL, created_at |-> NULL, like_count |-> 0]

IdleRun ==
  [listener_id |-> 0,        \* request.listener_id of a manual trigger, or 0
   listeners |-> << >>,      \* the selected Listener objects, as loaded
   i |-> 0,                  \* position in the for loop over listeners
   total_posts |-> 0,
   now |-> 0,
   is_initial |-> FALSE, max_posts |-> 0, use_pagination |-> FALSE,
   posts_collected |-> 0, cursor |-> 0, response_cursor |-> 0,
   fetches |-> 0, limit |-> 0, page_left |-> 0,
   uri |-> 0, post_view |-> NoView,
   is_new_post |-> FALSE,
   post_id |-> << >>, ents |-> << >>]

(* A select without the where clause. *)
RECURSIVE SelectFrom_All(_, _)
SelectFrom_All(l, only) ==
  IF l > NumListeners THEN << >>
  ELSE LET row == listeners[l]
       IN  (IF only = 0 \/ only = l
              THEN << [id |-> l, rule_type |-> row.rule_type,
                       initial_scrape_completed |-> row.initial_scrape_completed,
                       has_new_content |-> row.has_new_content] >>
              ELSE << >>) \o SelectFrom_All(l + 1, only)

(* The rows of the listeners table a trigger selects, in id order           *)
(* (main.py:44-50 and 153-162): active, and for bluesky or for all.         *)
RECURSIVE SelectFrom(_, _)
SelectFrom(l, only) ==
  IF l > NumListeners THEN << >>
  ELSE LET row == listeners[l]
           hit == /\ row.is_active
                  /\ row.platform \in {"bluesky", "all"}
                  /\ (only = 0 \/ only = l)
       IN  (IF hit
              THEN << [id |-> l, rule_type |-> row.rule_type,
                       initial_scrape_completed |-> row.initial_scrape_completed,
                       has_new_content |-> row.has_new_content] >>
              ELSE << >>) \o SelectFrom(l + 1, only)

MayStart(p) ==
  /\ pc[p] = "idle"
  /\ clock < env.max_triggers
  /\ env.overlap \/ \A q \in Procs : pc[q] = "idle"

(* scheduled_collect, main.py:39-52: open a session, select the listeners. *)
ScheduledCollect ==
  LET p == "sched"
      sel == SelectFrom(1, 0)
  IN  /\ MayStart(p)
      /\ clock' = clock + 1
      /\ run' = [run EXCEPT ![p] =
                  [IdleRun EXCEPT !.listeners = sel, !.now = IF sel = << >> THEN 0 ELSE clock + 1,
                                  !.i = IF sel = << >> THEN 0 ELSE 1]]
      /\ pc' = [pc EXCEPT ![p] = IF sel = << >> THEN "idle" ELSE "collect"]
      /\ UNCHANGED << fixed, client, store, tx >>

(* A request whose listener_id is not put into the query. *)
CollectBluesky_Unscoped(listener_id) ==
  LET p == "manual"
      sel == SelectFrom(1, 0)
      st == IF ~env.configured THEN "400" ELSE IF sel = << >> THEN "404" ELSE "running"
  IN  /\ MayStart(p)
      /\ clock' = clock + 1
      /\ run' = [run EXCEPT ![p] =
                  IF st = "running"
                    THEN [IdleRun EXCEPT !.listener_id = listener_id,
                                         !.listeners = sel, !.now = clock + 1, !.i = 1]
                    ELSE [IdleRun EXCEPT !.listener_id = listener_id]]
      /\ pc' = [pc EXCEPT ![p] = IF st = "running" THEN "collect" ELSE "raise_" \o st]
      /\ UNCHANGED << fixed, client, store, tx >>

(* collect_bluesky, main.py:143-167: 400 without credentials, 404 when the  *)
(* query selects no listener, otherwise the loop starts. listener_id is 0   *)
(* for a request without one, and may name a listener that does not exist.  *)
CollectBluesky(listener_id) ==
  LET p == "manual"
      sel == SelectFrom(1, listener_id)
      st == IF ~env.configured THEN "400" ELSE IF sel = << >> THEN "404" ELSE "running"
  IN  /\ MayStart(p)
      /\ clock' = clock + 1
      /\ run' = [run EXCEPT ![p] =
                  IF st = "running"
                    THEN [IdleRun EXCEPT !.listener_id = listener_id,
                                         !.listeners = sel, !.now = clock + 1, !.i = 1]
                    ELSE [IdleRun EXCEPT !.listener_id = listener_id]]
      /\ pc' = [pc EXCEPT ![p] = IF st = "running" THEN "collect" ELSE "raise_" \o st]
      /\ UNCHANGED << fixed, client, store, tx >>

(* The request ends with HTTPException 400 (main.py:150) or 404 (main.py:   *)
(* 165): nothing was collected.                                             *)
RaiseHTTP4xx ==
  LET p == "manual"
  IN  /\ pc[p] \in {"raise_400", "raise_404"}
      /\ pc' = [pc EXCEPT ![p] = "idle"]
      /\ run' = [run EXCEPT ![p] = IdleRun]
      /\ UNCHANGED << fixed, client, clock, store, tx >>

(* What remains of the coroutine's locals when a listener's run is over:    *)
(* the loop state of the trigger.                                           *)
EndRun(r, total) ==
  [IdleRun EXCEPT !.listener_id = r.listener_id,
                  !.listeners = r.listeners, !.i = r.i, !.now = r.now,
                  !.total_posts = total]

(* BlueskyCollector._client, bluesky.py:25-26: None, or a Client object,    *)
(* which has a session once login returned.                                 *)
NoClient == "none"
LoggedOut == "client without session"
LoggedIn == "client with session"

(* BlueskyCollector._get_client, bluesky.py:28-33: the new Client is stored *)
(* in _client before login is called on it; `raises` is whether that login  *)
(* raises.                                                                  *)
get_client(c, raises) ==
  IF c = NoClient
    THEN [client |-> IF raises THEN LoggedOut ELSE LoggedIn, raised |-> raises]
    ELSE [client |-> c, raised |-> FALSE]

(* BlueskyCollector.collect, bluesky.py:53-86, up to the first fetch, with  *)
(* the head of _collect_keyword / _collect_mention, bluesky.py:96-107.      *)
Collect(p) ==
  /\ pc[p] = "collect"
  /\ LET r == run[p]
         listener == r.listeners[r.i]
         is_initial == ~listener.initial_scrape_completed
         known == listener.rule_type \in {"keyword", "mention", "hashtag"}
     IN  IF ~env.configured
           THEN /\ run' = [run EXCEPT ![p] =
                       [r EXCEPT !.is_initial = FALSE, !.posts_collected = 0,
                                 !.fetches = 0]]
                /\ pc' = [pc EXCEPT ![p] = "polled"]
                /\ UNCHANGED client
           ELSE \E raises \in env.login_errors :
                  LET c == get_client(client, raises)
                  IN  /\ client' = c.client
                      /\ IF c.raised
                           THEN /\ run' = [run EXCEPT ![p] =
                                       [r EXCEPT !.is_initial = FALSE,
                                                 !.posts_collected = 0,
                                                 !.fetches = 0]]
                                /\ pc' = [pc EXCEPT ![p] = "error"]
                         ELSE IF known
                           THEN /\ run' = [run EXCEPT ![p] =
                                       [r EXCEPT !.is_initial = is_initial,
                                                 !.max_posts = IF is_initial
                                                                 THEN INITIAL_SCRAPE_MAX_POSTS
                                                                 ELSE REGULAR_SCRAPE_LIMIT,
                                                 !.use_pagination = is_initial,
                                                 !.posts_collected = 0, !.cursor = 0,
                                                 !.response_cursor = 0, !.fetches = 0]]
                                /\ pc' = [pc EXCEPT ![p] = "fetch"]
                           ELSE /\ run' = [run EXCEPT ![p] =
                                       [r EXCEPT !.is_initial = FALSE,
                                                 !.posts_collected = 0,
                                                 !.fetches = 0]]
                                /\ pc' = [pc EXCEPT ![p] = "polled"]
  /\ UNCHANGED << fixed, clock, store, tx >>

(* A limit that forgets the remaining budget. *)
PageLimit_PageSize(r) == PAGE_SIZE

(* A limit that is the remaining budget, whatever the page size. *)
PageLimit_Remaining(r) == r.max_posts - r.posts_collected

(* The limit of the next request, bluesky.py:110-112. *)
PageLimit(r) == Min(PAGE_SIZE, r.max_posts - r.posts_collected)

(* client.app.bsky.feed.search_posts, bluesky.py:109-122: the platform      *)
(* raises, or answers with n <= limit items and perhaps a cursor (an empty  *)
(* page may carry one too).                                                 *)
SearchPosts(p) ==
  /\ pc[p] = "fetch"
  /\ LET r == run[p]
         limit == PageLimit(r)
         k == r.fetches + 1
     IN  \E raises \in BOOLEAN, n \in 0..limit, more \in BOOLEAN :
           /\ raises => (n = 0 /\ ~more)
           /\ k >= env.max_fetches => ~more
           /\ run' = [run EXCEPT ![p] =
                  [r EXCEPT !.fetches = k, !.limit = limit, !.page_left = n,
                            !.response_cursor = IF more THEN k ELSE 0]]
           /\ pc' = [pc EXCEPT ![p] =
                  IF raises THEN "error"
                  ELSE IF n = 0 THEN "mark" ELSE "select_post"]
  /\ UNCHANGED << fixed, client, clock, store, tx >>

----------------------------------------------------------------------------
(* The save step, bluesky.py:206-314 *)

(* A loop that follows the cursor in either mode. *)
AfterItem_Paginate(r, saved) ==
  LET r1 == [r EXCEPT !.posts_collected = @ + (IF saved THEN 1 ELSE 0),
                      !.page_left = @ - 1,
                      !.uri = 0, !.post_view = NoView, !.is_new_post = FALSE,
                      !.post_id = << >>, !.ents = << >>]
      r2 == [r1 EXCEPT !.cursor = r1.response_cursor]
  IN  IF r1.page_left > 0 THEN [pc |-> "select_post", run |-> r1]
      ELSE IF r2.cursor = 0 THEN [pc |-> "mark", run |-> r2]
      ELSE IF r2.posts_collected < r2.max_posts THEN [pc |-> "fetch", run |-> r2]
      ELSE [pc |-> "mark", run |-> r2]

(* A loop that counts every item of the page, new or not. *)
AfterItem_CountAll(r, saved) ==
  LET r1 == [r EXCEPT !.posts_collected = @ + 1,
                      !.page_left = @ - 1,
                      !.uri = 0, !.post_view = NoView, !.is_new_post = FALSE,
                      !.post_id = << >>, !.ents = << >>]
      r2 == [r1 EXCEPT !.cursor = r1.response_cursor]
  IN  IF r1.page_left > 0 THEN [pc |-> "select_post", run |-> r1]
      ELSE IF ~r2.use_pagination \/ r2.cursor = 0 THEN [pc |-> "mark", run |-> r2]
      ELSE IF r2.posts_collected < r2.max_posts THEN [pc |-> "fetch", run |-> r2]
      ELSE [pc |-> "mark", run |-> r2]

(* A loop that fetches again without taking the cursor of the response. *)
AfterItem_StaleCursor(r, saved) ==
  LET r1 == [r EXCEPT !.posts_collected = @ + (IF saved THEN 1 ELSE 0),
                      !.page_left = @ - 1,
                      !.uri = 0, !.post_view = NoView, !.is_new_post = FALSE,
                      !.post_id = << >>, !.ents = << >>]
  IN  IF r1.page_left > 0 THEN [pc |-> "select_post", run |-> r1]
      ELSE IF ~r1.use_pagination \/ r1.response_cursor = 0 THEN [pc |-> "mark", run |-> r1]
      ELSE IF r1.posts_collected < r1.max_posts THEN [pc |-> "fetch", run |-> r1]
      ELSE [pc |-> "mark", run |-> r1]

(* The for loop over response.posts goes on to the next item, and after the *)
(* last one the while loop decides whether to fetch again, bluesky.py:124-  *)
(* 137: `saved` is what _save_post returned (False when it raised).         *)
AfterItem(r, saved) ==
  LET r1 == [r EXCEPT !.posts_collected = @ + (IF saved THEN 1 ELSE 0),
                      !.page_left = @ - 1,
                      !.uri = 0, !.post_view = NoView, !.is_new_post = FALSE,
                      !.post_id = << >>, !.ents = << >>]
      r2 == [r1 EXCEPT !.cursor = r1.response_cursor]
  IN  IF r1.page_left > 0 THEN [pc |-> "select_post", run |-> r1]
      ELSE IF ~r2.use_pagination \/ r2.cursor = 0 THEN [pc |-> "mark", run |-> r2]
      ELSE IF r2.posts_collected < r2.max_posts THEN [pc |-> "fetch", run |-> r2]
      ELSE [pc |-> "mark", run |-> r2]

(* A unique constraint declared per listener instead of per platform. *)
ConflictingPosts_PerListener(p, key) ==
  {w \in ViewPosts(p) : PostKey(w) = key
                         /\ w.listener_id = run[p].listeners[run[p].i].id}

(* uq_platform_post, models/post.py:11-13, as the upsert consults it: the   *)
(* rows of the key that the statement conflicts with.                       *)
ConflictingPosts(p, key) == {w \in ViewPosts(p) : PostKey(w) = key}

(* A pre-check that does not see the rows its own run has written. *)
IsNewPost_CommittedOnly(p, uri) ==
  {w \in posts : PostKey(w) = << "bluesky", uri >>} = {}

(* A pre-check that looks only among the posts of the run's own listener. *)
IsNewPost_OwnListener(p, uri) ==
  {w \in ViewPosts(p) : /\ PostKey(w) = << "bluesky", uri >>
                        /\ w.listener_id = run[p].listeners[run[p].i].id} = {}

(* The pre-check select, bluesky.py:251-259: is_new_post. *)
IsNewPost(p, uri) == {w \in ViewPosts(p) : PostKey(w) = << "bluesky", uri >>} = {}

(* _save_post up to the pre-check select, for the next item of the page.    *)
(* In an aborted transaction the statement raises and the item is skipped.  *)
SelectExisting(p) ==
  /\ pc[p] = "select_post"
  /\ \E uri \in env.items, v \in env.views :
       LET r == run[p]
           skip == AfterItem(r, FALSE)
       IN  IF tx[p].aborted
             THEN /\ run' = [run EXCEPT ![p] = skip.run]
                  /\ pc' = [pc EXCEPT ![p] = skip.pc]
             ELSE /\ run' = [run EXCEPT ![p] =
                         [r EXCEPT !.uri = uri, !.post_view = v,
                                   !.is_new_post = IsNewPost(p, uri)]]
                  /\ pc' = [pc EXCEPT ![p] = "upsert"]
  /\ UNCHANGED << fixed, client, clock, store, tx >>

(* The row insert(Post).values(...) builds, bluesky.py:262-277. *)
NewPost(id, listener_id, uri, v, now) ==
  [id |-> id, listener_id |-> listener_id, platform |-> "bluesky",
   platform_post_id |-> uri,
   author_handle |-> v.handle, author_display_name |-> v.display_name,
   author_avatar_url |-> v.avatar, content |-> v.text,
   likes_count |-> v.like_count, post_created_at |-> parse_created_at(v.created_at),
   collected_at |-> now,
   sentiment_score |-> {},  \* a nullable number: no value, or one
   sentiment_label |-> NULL, nlp_processed_at |-> 0, nlp_error |-> NULL,
   enrich_calls |-> 0]     \* history: the calls of process_post on the row

(* An upsert whose set_ also takes the excluded content. *)
OnConflictUpdate_Content(row, v, now) ==
  [row EXCEPT !.likes_count = v.like_count, !.content = v.text]

(* on_conflict_do_update(set_=...), bluesky.py:280-288. *)
OnConflictUpdate(row, v, now) == [row EXCEPT !.likes_count = v.like_count]

(* An except branch that records the error and forgets the timestamp. *)
ProcessPostHead_NoStamp(post, now, fails) ==
  IF post.content = NULL
    THEN [post |-> [post EXCEPT !.nlp_processed_at = now], ents |-> << >>, done |-> TRUE]
  ELSE IF fails = "sentiment"
    THEN [post |-> [post EXCEPT !.nlp_error = "NLP processing failed"],
          ents |-> << >>, done |-> TRUE]
  ELSE IF fails = "ner"
    THEN [post |-> [post EXCEPT !.sentiment_score = {analyze_sentiment(post.content).score},
                                !.sentiment_label = analyze_sentiment(post.content).label,
                                !.nlp_error = "NLP processing failed"],
          ents |-> << >>, done |-> TRUE]
  ELSE [post |-> [post EXCEPT !.sentiment_score = {analyze_sentiment(post.content).score},
                                !.sentiment_label = analyze_sentiment(post.content).label],
        ents |-> extract_entities(post.content), done |-> FALSE]

(* A process_post that runs the analyzers on a post without content too. *)
ProcessPostHead_AnalyzeAll(post, now, fails) ==
  IF fails = "sentiment"
    THEN [post |-> [post EXCEPT !.nlp_error = "NLP processing failed",
                                !.nlp_processed_at = now],
          ents |-> << >>, done |-> TRUE]
  ELSE IF fails = "ner"
    THEN [post |-> [post EXCEPT !.sentiment_score = {analyze_sentiment(post.content).score},
                                !.sentiment_label = analyze_sentiment(post.content).label,
                                !.nlp_error = "NLP processing failed",
                                !.nlp_processed_at = now],
          ents |-> << >>, done |-> TRUE]
  ELSE [post |-> [post EXCEPT !.sentiment_score = {analyze_sentiment(post.content).score},
                                !.sentiment_label = analyze_sentiment(post.content).label],
        ents |-> extract_entities(post.content), done |-> FALSE]

(* process_post up to its first database statement, processor.py:43-56 and  *)
(* 70-75: `fails` is the analyzer that raises, if any.                      *)
ProcessPostHead(post, now, fails) ==
  IF post.content = NULL
    THEN [post |-> [post EXCEPT !.nlp_processed_at = now], ents |-> << >>, done |-> TRUE]
  ELSE IF fails = "sentiment"
    THEN [post |-> [post EXCEPT !.nlp_error = "NLP processing failed",
                                !.nlp_processed_at = now],
          ents |-> << >>, done |-> TRUE]
  ELSE IF fails = "ner"
    THEN [post |-> [post EXCEPT !.sentiment_score = {analyze_sentiment(post.content).score},
                                !.sentiment_label = analyze_sentiment(post.content).label,
                                !.nlp_error = "NLP processing failed",
                                !.nlp_processed_at = now],
          ents |-> << >>, done |-> TRUE]
  ELSE [post |-> [post EXCEPT !.sentiment_score = {analyze_sentiment(post.content).score},
                                !.sentiment_label = analyze_sentiment(post.content).label],
        ents |-> extract_entities(post.content), done |-> FALSE]

(* An end of the try block that leaves an earlier error in place. *)
ProcessPostDone_KeepError(post, now) ==
  [post EXCEPT !.nlp_processed_at = now]

(* The end of process_post's try block, processor.py:60-68. *)
ProcessPostDone(post, now) ==
  [post EXCEPT !.nlp_processed_at = now, !.nlp_error = NULL]

PutPost(t, row) == [t EXCEPT !.posts = {w \in @ : w.id # row.id} \cup {row}]

(* The upsert, bluesky.py:261-291, then for a post taken as new the select  *)
(* of the row and process_post up to its first statement, bluesky.py:293-   *)
(* 306. The statement waits while another session holds the key. When the   *)
(* statement raises, the except of bluesky.py:129 skips the item.           *)
UpsertPost(p) ==
  /\ pc[p] = "upsert"
  /\ LET r == run[p]
         key == << "bluesky", r.uri >>
         conflict == ConflictingPosts(p, key)
         listener == r.listeners[r.i]
         written == IF conflict = {}
                      THEN NewPost(FreeId(AllPostIds, r.uri), listener.id, r.uri,
                                   r.post_view, r.now)
                      ELSE OnConflictUpdate(CHOOSE w \in conflict : TRUE,
                                            r.post_view, r.now)
         t1 == PutPost(tx[p], written)
         \* ForeignKey("listeners.id"), post.py:16: an insert for a listener
         \* whose row is gone raises
         outcomes == IF conflict = {} /\ ~Exists(listener.id)
                       THEN {TRUE} ELSE env.db_errors
     IN  /\ PostHolders(p, key) = {}
         /\ \E raises \in outcomes :
            IF raises
              THEN LET nxt == AfterItem(r, FALSE)
                   IN  /\ tx' = [tx EXCEPT ![p] = AbortedTx]
                       /\ run' = [run EXCEPT ![p] = nxt.run]
                       /\ pc' = [pc EXCEPT ![p] = nxt.pc]
            ELSE IF ~r.is_new_post
              THEN LET nxt == AfterItem(r, FALSE)
                   IN  /\ tx' = [tx EXCEPT ![p] = t1]
                       /\ run' = [run EXCEPT ![p] = nxt.run]
                       /\ pc' = [pc EXCEPT ![p] = nxt.pc]
              ELSE \E fails \in env.fails :
                     LET post == [written EXCEPT !.enrich_calls = Min(@ + 1, 2)]
                         h == ProcessPostHead(post, r.now, fails)
                         fin == IF h.done THEN h.post
                                ELSE ProcessPostDone(h.post, r.now)
                         nxt == AfterItem(r, TRUE)
                     IN  IF h.done \/ h.ents = << >>
                           THEN /\ tx' = [tx EXCEPT ![p] = PutPost(t1, fin)]
                                /\ run' = [run EXCEPT ![p] = nxt.run]
                                /\ pc' = [pc EXCEPT ![p] = nxt.pc]
                           ELSE /\ tx' = [tx EXCEPT ![p] = PutPost(t1, h.post)]
                                /\ run' = [run EXCEPT ![p] =
                                      [r EXCEPT !.post_id = post.id, !.ents = h.ents]]
                                /\ pc' = [pc EXCEPT ![p] = "insert_entity"]
  /\ UNCHANGED << fixed, client, clock, store >>

----------------------------------------------------------------------------
(* Entity storage, processor.py:77-149 *)

(* A lookup that sees only what its own session has inserted. *)
EntityOf_OwnSession(p, e) ==
  {w \in tx[p].entities : EntityKey(w) = << e.entity_type, e.normalized_text >>}

(* The entity of a span, as the statements of _get_or_create_entity see it. *)
EntityOf(p, e) ==
  {w \in ViewEntities(p) : EntityKey(w) = << e.entity_type, e.normalized_text >>}

(* An insert whose conflict clause takes the new display text. *)
InsertEntity_Overwrite(p) ==
  /\ pc[p] = "insert_entity"
  /\ LET e == Head(run[p].ents)
         key == << e.entity_type, e.normalized_text >>
         old == EntityOf(p, e)
         id == IF old = {} THEN FreeId(AllEntityIds, e.normalized_text)
               ELSE (CHOOSE w \in old : TRUE).id
         row == [id |-> id, entity_type |-> e.entity_type,
                 entity_text |-> e.normalized_text, display_text |-> e.text]
     IN  /\ EntityHolders(p, key) = {}
         /\ tx' = [tx EXCEPT ![p].entities = {w \in @ : w.id # id} \cup {row}]
         /\ pc' = [pc EXCEPT ![p] = "insert_occurrence"]
         /\ UNCHANGED run
  /\ UNCHANGED << fixed, client, clock, store >>

(* insert(Entity) ... on_conflict_do_nothing, processor.py:129-139. When    *)
(* the statement raises, process_post catches it (processor.py:70-75), the  *)
(* flush of bluesky.py:307 raises in the aborted transaction and is caught  *)
(* at bluesky.py:308, and _save_post returns is_new_post.                   *)
InsertEntity(p) ==
  /\ pc[p] = "insert_entity"
  /\ LET e == Head(run[p].ents)
         key == << e.entity_type, e.normalized_text >>
         row == [id |-> FreeId(AllEntityIds, e.normalized_text), entity_type |-> e.entity_type,
                 entity_text |-> e.normalized_text, display_text |-> e.text]
         nxt == AfterItem(run[p], TRUE)
     IN  /\ EntityHolders(p, key) = {}
         /\ \E raises \in env.db_errors :
              IF raises
                THEN /\ tx' = [tx EXCEPT ![p] = AbortedTx]
                     /\ run' = [run EXCEPT ![p] = nxt.run]
                     /\ pc' = [pc EXCEPT ![p] = nxt.pc]
                ELSE /\ tx' = [tx EXCEPT ![p].entities =
                             IF EntityOf(p, e) = {} THEN @ \cup {row} ELSE @]
                     /\ pc' = [pc EXCEPT ![p] = "insert_occurrence"]
                     /\ UNCHANGED run
  /\ UNCHANGED << fixed, client, clock, store >>

(* The select of the entity, processor.py:141-149, and the insert of the    *)
(* occurrence with on_conflict_do_nothing, processor.py:100-112; after the  *)
(* last span, the end of process_post and the flush of bluesky.py:307.      *)
InsertOccurrence(p) ==
  /\ pc[p] = "insert_occurrence"
  /\ LET r == run[p]
         e == Head(r.ents)
         entity == CHOOSE w \in EntityOf(p, e) : TRUE
         row == [id |-> FreeId(AllOccIds, << r.post_id, entity.id, e.start_pos >>),
                 post_id |-> r.post_id, entity_id |-> entity.id,
                 start_pos |-> e.start_pos]
         t1 == [tx[p] EXCEPT !.post_entities =
                  IF \E w \in ViewPostEntities(p) : OccKey(w) = OccKey(row)
                    THEN @ ELSE @ \cup {row}]
         post == CHOOSE w \in tx[p].posts : w.id = r.post_id
         nxt == AfterItem(r, TRUE)
     IN  /\ OccHolders(p, OccKey(row)) = {}
         /\ IF Len(r.ents) > 1
              THEN /\ tx' = [tx EXCEPT ![p] = t1]
                   /\ run' = [run EXCEPT ![p] = [r EXCEPT !.ents = Tail(@)]]
                   /\ pc' = [pc EXCEPT ![p] = "insert_entity"]
              ELSE /\ tx' = [tx EXCEPT ![p] = PutPost(t1, ProcessPostDone(post, r.now))]
                   /\ run' = [run EXCEPT ![p] = nxt.run]
                   /\ pc' = [pc EXCEPT ![p] = nxt.pc]
  /\ UNCHANGED << fixed, client, clock, store >>

----------------------------------------------------------------------------
(* The end of a listener's run *)

(* An UPDATE of listener l that sets the given columns. *)
WriteListener(t, l, cols, vals) ==
  [t EXCEPT !.cols[l] = @ \cup cols,
            !.vals[l] = [c \in ListenerCols |->
                           IF c \in cols THEN vals[c] ELSE @[c]]]

NeedsMark(r) == r.is_initial /\ r.posts_collected > 0

(* Mark initial scrape as completed, bluesky.py:139-145 (198-204): the      *)
(* flush sends the UPDATE, which waits for the row and raises in an aborted *)
(* transaction, or when it matches no row because the listener was deleted. *)
MarkInitialScrape(p) ==
  /\ pc[p] = "mark"
  /\ LET r == run[p]
         l == r.listeners[r.i].id
     IN  IF ~NeedsMark(r)
           THEN /\ pc' = [pc EXCEPT ![p] = "polled"]
                /\ UNCHANGED << tx, run >>
           ELSE IF tx[p].aborted \/ ~Exists(l)
             THEN /\ pc' = [pc EXCEPT ![p] = "error"]
                  /\ UNCHANGED << tx, run >>
             ELSE /\ ListenerHolders(p, l) = {}
                  /\ tx' = [tx EXCEPT ![p] =
                        WriteListener(@, l, {"initial_scrape_completed"},
                           [initial_scrape_completed |-> TRUE,
                            has_new_content |-> FALSE, last_polled_at |-> 0])]
                  /\ run' = [run EXCEPT ![p].listeners[r.i].initial_scrape_completed = TRUE]
                  /\ pc' = [pc EXCEPT ![p] = "polled"]
  /\ UNCHANGED << fixed, client, clock, store >>

(* The attributes the orchestrator sets on the Listener object after        *)
(* collect returned, main.py:57-59 (172-174): the unit of work sends only   *)
(* the columns whose value differs from the loaded one.                     *)
PolledCols(r) ==
  {"last_polled_at"} \cup
  (IF r.posts_collected > 0 /\ ~r.listeners[r.i].has_new_content
     THEN {"has_new_content"} ELSE {})

PolledVals(r) ==
  [initial_scrape_completed |-> FALSE, has_new_content |-> TRUE,
   last_polled_at |-> r.now]

(* session.commit(): the rows of the transaction become the committed ones. *)
Committed(p, t) ==
  [posts |-> {w \in posts : w.id \notin Ids(t.posts)} \cup t.posts,
   entities |-> entities \cup t.entities,
   post_entities |-> post_entities \cup t.post_entities,
   listeners |-> [l \in ListenerIds |->
                    [c \in DOMAIN listeners[l] |->
                       IF c \in t.cols[l] THEN t.vals[l][c] ELSE listeners[l][c]]]]

(* The for loop goes on, or the trigger is over. *)
NextListener(r, last) ==
  IF r.i < Len(r.listeners)
    THEN [pc |-> "collect", run |-> [r EXCEPT !.i = @ + 1]]
    ELSE [pc |-> last, run |-> IF last = "idle" THEN IdleRun ELSE r]

(* scheduled_collect after collect returned, main.py:56-64: the commit of   *)
(* this listener's run; a commit that raises is answered by the rollback.   *)
CommitRun ==
  LET p == "sched"
      r == run[p]
      l == r.listeners[r.i].id
      total == r.total_posts + r.posts_collected
      t1 == WriteListener(tx[p], l, PolledCols(r), PolledVals(r))
      c == Committed(p, t1)
      nxt == NextListener(EndRun(r, total), "idle")
  IN  /\ pc[p] = "polled"
      /\ IF tx[p].aborted \/ ~Exists(l)
           THEN UNCHANGED store
           ELSE /\ ListenerHolders(p, l) = {}
                /\ posts' = c.posts
                /\ entities' = c.entities
                /\ post_entities' = c.post_entities
                /\ listeners' = c.listeners
      /\ run' = [run EXCEPT ![p] = nxt.run]
      /\ pc' = [pc EXCEPT ![p] = nxt.pc]
      /\ tx' = [tx EXCEPT ![p] = EmptyTx]
      /\ UNCHANGED << fixed, client, clock >>

(* An except branch that logs and goes on without the rollback. *)
RollbackRun_Keep ==
  LET p == "sched"
      nxt == NextListener(EndRun(run[p], run[p].total_posts), "idle")
  IN  /\ pc[p] = "error"
      /\ run' = [run EXCEPT ![p] = nxt.run]
      /\ pc' = [pc EXCEPT ![p] = nxt.pc]
      /\ UNCHANGED << fixed, client, clock, store, tx >>

(* scheduled_collect's except branch, main.py:62-64. *)
RollbackRun ==
  LET p == "sched"
      nxt == NextListener(EndRun(run[p], run[p].total_posts), "idle")
  IN  /\ pc[p] = "error"
      /\ tx' = [tx EXCEPT ![p] = EmptyTx]
      /\ run' = [run EXCEPT ![p] = nxt.run]
      /\ pc' = [pc EXCEPT ![p] = nxt.pc]
      /\ UNCHANGED << fixed, client, clock, store >>

(* collect_bluesky after collect returned, main.py:171-174: nothing is      *)
(* committed; the changed Listener is sent with the next statement.         *)
RecordRun ==
  LET p == "manual"
      r == run[p]
      l == r.listeners[r.i].id
      total == r.total_posts + r.posts_collected
      nxt == NextListener(EndRun(r, total), "commit")
  IN  /\ pc[p] = "polled"
      /\ IF tx[p].aborted \/ ~Exists(l)
           THEN /\ pc' = [pc EXCEPT ![p] = "error"]
                /\ UNCHANGED << tx, run >>
           ELSE /\ ListenerHolders(p, l) = {}
                /\ tx' = [tx EXCEPT ![p] =
                       WriteListener(@, l, PolledCols(r), PolledVals(r))]
                /\ run' = [run EXCEPT ![p] = nxt.run]
                /\ pc' = [pc EXCEPT ![p] = nxt.pc]
      /\ UNCHANGED << fixed, client, clock, store >>

(* collect_bluesky's single commit after the loop, main.py:179-186. *)
CommitAll ==
  LET p == "manual"
      c == Committed(p, tx[p])
  IN  /\ pc[p] = "commit"
      /\ posts' = c.posts
      /\ entities' = c.entities
      /\ post_entities' = c.post_entities
      /\ listeners' = c.listeners
      /\ tx' = [tx EXCEPT ![p] = EmptyTx]
      /\ run' = [run EXCEPT ![p] = IdleRun]
      /\ pc' = [pc EXCEPT ![p] = "idle"]
      /\ UNCHANGED << fixed, client, clock >>

(* The session dependency of the endpoints, app.database.get_session, when  *)
(* the handler leaves it by an exception: the session is closed, and what   *)
(* it had not committed is discarded.                                       *)
get_session(t) == EmptyTx

(* collect_bluesky's except branch, main.py:175-177: the request ends with  *)
(* status 500 and its session is closed with nothing committed.             *)
RaiseHTTP500 ==
  LET p == "manual"
  IN  /\ pc[p] = "error"
      /\ tx' = [tx EXCEPT ![p] = get_session(tx[p])]
      /\ run' = [run EXCEPT ![p] = IdleRun]
      /\ pc' = [pc EXCEPT ![p] = "idle"]
      /\ UNCHANGED << fixed, client, clock, store >>

----------------------------------------------------------------------------
(* Lock waits *)

(* The sessions the pending statement of p waits for. *)
Waits(p) ==
  LET r == run[p]
  IN  IF tx[p].aborted THEN {}
      ELSE IF pc[p] = "upsert" THEN PostHolders(p, << "bluesky", r.uri >>)
      ELSE IF pc[p] = "insert_entity"
        THEN EntityHolders(p, << Head(r.ents).entity_type, Head(r.ents).normalized_text >>)
      ELSE IF pc[p] = "mark" /\ NeedsMark(r) THEN ListenerHolders(p, r.listeners[r.i].id)
      ELSE IF pc[p] = "polled" THEN ListenerHolders(p, r.listeners[r.i].id)
      ELSE {}

(* Two sessions wait for each other: PostgreSQL ends the wait of one of     *)
(* them with an error, which aborts its transaction and frees its locks.    *)
(* The error surfaces where the statement was awaited: in _save_post it is  *)
(* caught per item (bluesky.py:129); inside process_post it is caught       *)
(* there (processor.py:70) and the item counts as saved; at a flush of the  *)
(* listener it ends the run.                                                *)
DeadlockVictim(p) ==
  /\ \E q \in Waits(p) : p \in Waits(q)
  /\ tx' = [tx EXCEPT ![p] = [EmptyTx EXCEPT !.aborted = TRUE]]
  /\ LET r == run[p]
         nxt == IF pc[p] = "upsert" THEN AfterItem(r, FALSE)
                ELSE IF pc[p] = "insert_entity" THEN AfterItem(r, TRUE)
                ELSE [pc |-> pc[p], run |-> r]
     IN  /\ run' = [run EXCEPT ![p] = nxt.run]
         /\ pc' = [pc EXCEPT ![p] = nxt.pc]
  /\ UNCHANGED << fixed, client, clock, store >>

----------------------------------------------------------------------------
(* The management API *)

(* acknowledge_new_content, api/app/routes/listeners.py:141-155. *)
Acknowledge(l) ==
  /\ listeners[l].has_new_content
  /\ \A q \in Procs : tx[q].cols[l] = {}
  /\ listeners' = [listeners EXCEPT ![l].has_new_content = FALSE]
  /\ UNCHANGED << fixed, client, clock, posts, entities, post_entities, tx, pc, run >>

(* A post_entities table whose rows stay when their post is deleted. *)
OnDeletePost_NoAction(rows, post_ids) == rows

(* ForeignKey("posts.id", ondelete="CASCADE") and the relationship's        *)
(* cascade="all, delete-orphan", models/entity.py:37 and models/post.py:    *)
(* 44-46: the occurrences left when the posts `post_ids` are deleted.       *)
OnDeletePost(rows, post_ids) == {o \in rows : o.post_id \notin post_ids}

(* delete_post, api/app/routes/posts.py:209-222, for a post that exists:    *)
(* the DELETE waits while a collector session holds a version of the row or *)
(* an occurrence that refers to it.                                         *)
DeletePost(w) ==
  /\ w \in posts
  /\ \A q \in Procs :
       /\ w.id \notin Ids(tx[q].posts)
       /\ \A o \in tx[q].post_entities : o.post_id # w.id
  /\ posts' = posts \ {w}
  /\ post_entities' = OnDeletePost(post_entities, {w.id})
  /\ UNCHANGED << fixed, client, clock, listeners, entities, tx, pc, run >>

(* delete_listener, api/app/routes/listeners.py:108-121, for a listener     *)
(* that exists: the listener's posts go with it (cascade="all,              *)
(* delete-orphan", api/app/models/listener.py:25; ondelete="CASCADE",       *)
(* models/post.py:16), and their occurrences with them. The DELETE waits    *)
(* while a collector session holds a write of the listener row, or a post   *)
(* row that refers to it.                                                   *)
DeleteListener(l) ==
  /\ Exists(l)
  /\ \A q \in Procs :
       /\ tx[q].cols[l] = {}
       /\ \A w \in tx[q].posts : w.listener_id # l
  /\ LET gone == {w \in posts : w.listener_id = l}
     IN  /\ listeners' = [listeners EXCEPT ![l] = Deleted]
         /\ posts' = posts \ gone
         /\ post_entities' = OnDeletePost(post_entities, Ids(gone))
  /\ UNCHANGED << fixed, client, clock, entities, tx, pc, run >>

----------------------------------------------------------------------------
(* Specifications *)

(* No function is called on its own. *)
NoCall ==
  [fn |-> "none", done |-> FALSE,
   compound |-> 0, sentiment |-> [score |-> 0, label |-> "neutral"],
   created_at |-> Absent, post_created_at |-> Unset]

(* The compound scores drawn: every multiple of 0.00001 up to MaxCompound   *)
(* in size, but for the decimal ties of the rounding, whose direction       *)
(* depends on the binary value of the float.                                *)
Compounds == {c \in (0 - MaxCompound)..MaxCompound : c % 10 # 5}

(* The source timestamps drawn. *)
Timestamps ==
  {Absent, Garbage}
  \cup {Iso(wall, TRUE, 0) : wall \in 0..MaxHour}
  \cup {Iso(wall, FALSE, offset) :
          wall \in 0..MaxHour, offset \in (0 - MaxOffset)..MaxOffset}

(* analyze_sentiment on a non-empty text whose compound score is the one    *)
(* drawn, sentiment.py:43-58.                                               *)
AnalyzeSentiment ==
  /\ call.fn = "analyze_sentiment"
  /\ ~call.done
  /\ call' = [call EXCEPT !.done = TRUE,
                          !.sentiment = SentimentResult(call.compound)]
  /\ UNCHANGED << env, client, clock, store, tx, pc, run >>

(* The parse of record.created_at in _save_post, bluesky.py:241-249. *)
ParseCreatedAt ==
  /\ call.fn = "parse_created_at"
  /\ ~call.done
  /\ call' = [call EXCEPT !.done = TRUE,
                          !.post_created_at = parse_created_at(call.created_at)]
  /\ UNCHANGED << env, client, clock, store, tx, pc, run >>

InitListener(l, active) ==
  [is_active |-> active,
   platform |-> IF l = 1 THEN "bluesky" ELSE "all",
   rule_type |-> IF l = 1 THEN "keyword" ELSE "mention",
   initial_scrape_completed |-> FALSE,
   has_new_content |-> FALSE,
   last_polled_at |-> 0]

InitStore ==
  /\ clock = 0
  /\ posts = {}
  /\ entities = {}
  /\ post_entities = {}
  /\ tx = [p \in Procs |-> EmptyTx]
  /\ pc = [p \in Procs |-> "idle"]
  /\ run = [p \in Procs |-> IdleRun]
  /\ client = NoClient
  /\ call = NoCall

(* The timer and the on-demand call run with no mutual exclusion. *)
Init ==
  /\ env = [items |-> 1..NumItems, views |-> {TextView}, fails |-> {"none"},
            db_errors |-> {FALSE}, overlap |-> TRUE,
            max_triggers |-> MaxTriggers, max_fetches |-> 1,
            configured |-> TRUE, login_errors |-> {FALSE}]
  /\ listeners = [l \in ListenerIds |-> InitListener(l, TRUE)]
  /\ InitStore

(* Overlapping triggers over posts that name one entity twice, with an      *)
(* entity recognizer that may raise.                                        *)
InitEnrich ==
  /\ env = [items |-> 1..NumItems, views |-> {EchoView},
            fails |-> {"none", "ner"},
            db_errors |-> {FALSE}, overlap |-> TRUE,
            max_triggers |-> MaxTriggers, max_fetches |-> 1,
            configured |-> TRUE, login_errors |-> {FALSE}]
  /\ listeners = [l \in ListenerIds |-> InitListener(l, TRUE)]
  /\ InitStore

(* Triggers that follow one another over posts that name an entity, with   *)
(* deletions through the management API in between.                         *)
InitDelete ==
  /\ env = [items |-> 1..NumItems, views |-> {EchoView}, fails |-> {"none"},
            db_errors |-> {FALSE}, overlap |-> FALSE,
            max_triggers |-> MaxTriggers, max_fetches |-> 1,
            configured |-> TRUE, login_errors |-> {FALSE}]
  /\ listeners = [l \in ListenerIds |-> InitListener(l, TRUE)]
  /\ InitStore

(* Triggers that follow one another. *)
InitSeq ==
  /\ env = [items |-> 1..NumItems, views |-> PostViews,
            fails |-> {"none", "sentiment", "ner"}, db_errors |-> BOOLEAN,
            overlap |-> FALSE,
            max_triggers |-> MaxTriggers, max_fetches |-> 1,
            configured |-> TRUE, login_errors |-> {FALSE}]
  /\ listeners = [l \in ListenerIds |-> InitListener(l, TRUE)]
  /\ InitStore

(* A listener of another platform. *)
OtherPlatform(l) == [InitListener(l, TRUE) EXCEPT !.platform = "threads"]

(* The pagination environment: one eligible listener (the others inactive, *)
(* or of another platform), more items and pages than the budget, triggers  *)
(* that follow one another, credentials set or not                          *)
(* (settings.bluesky_handle, settings.bluesky_app_password), a login that   *)
(* always succeeds or one that may raise.                                   *)
InitPage ==
  /\ \E configured \in BOOLEAN, login_errors \in {{FALSE}, BOOLEAN} :
       env = [items |-> 1..PageItems, views |-> {TextView}, fails |-> {"none"},
              db_errors |-> {FALSE}, overlap |-> FALSE,
              max_triggers |-> PageTriggers, max_fetches |-> PageFetches,
              configured |-> configured, login_errors |-> login_errors]
  /\ \E inactive \in BOOLEAN :
       listeners = [l \in ListenerIds |->
                      IF l = 1 THEN InitListener(l, TRUE)
                      ELSE IF inactive THEN InitListener(l, FALSE)
                      ELSE OtherPlatform(l)]
  /\ InitStore

(* The pagination loop under overlapping triggers: both triggers run the   *)
(* one active listener.                                                     *)
InitRace ==
  /\ env = [items |-> 1..NumItems, views |-> {TextView}, fails |-> {"none"},
            db_errors |-> {FALSE}, overlap |-> TRUE,
            max_triggers |-> MaxTriggers, max_fetches |-> RaceFetches,
            configured |-> TRUE, login_errors |-> {FALSE}]
  /\ listeners = [l \in ListenerIds |-> InitListener(l, l = 1)]
  /\ InitStore

(* The pure functions, each applied once to an input drawn from its set;   *)
(* no trigger arrives.                                                      *)
InitFn ==
  /\ env = [items |-> {}, views |-> {}, fails |-> {"none"},
            db_errors |-> {FALSE}, overlap |-> FALSE,
            max_triggers |-> 0, max_fetches |-> 0, configured |-> TRUE,
            login_errors |-> {FALSE}]
  /\ listeners = [l \in ListenerIds |-> InitListener(l, TRUE)]
  /\ clock = 0
  /\ posts = {}
  /\ entities = {}
  /\ post_entities = {}
  /\ tx = [p \in Procs |-> EmptyTx]
  /\ pc = [p \in Procs |-> "idle"]
  /\ run = [p \in Procs |-> IdleRun]
  /\ client = NoClient
  /\ \/ \E c \in Compounds :
          call = [NoCall EXCEPT !.fn = "analyze_sentiment", !.compound = c]
     \/ \E t \in Timestamps :
          call = [NoCall EXCEPT !.fn = "parse_created_at", !.created_at = t]

Step(p) ==
  \/ Collect(p)
  \/ SearchPosts(p)
  \/ SelectExisting(p)
  \/ UpsertPost(p)
  \/ InsertEntity(p)
  \/ InsertOccurrence(p)
  \/ MarkInitialScrape(p)

Orchestrate ==
  \/ ScheduledCollect
  \/ \E listener_id \in 0..(NumListeners + 1) : CollectBluesky(listener_id)
  \/ RaiseHTTP4xx
  \/ CommitRun
  \/ RollbackRun
  \/ RecordRun
  \/ CommitAll
  \/ RaiseHTTP500

NextSeq ==
  \/ \E p \in Procs : Step(p)
  \/ Orchestrate

Next ==
  \/ NextSeq
  \/ \E p \in Procs : DeadlockVictim(p)

(* The management API at work between the statements of the collector. *)
NextDelete ==
  \/ NextSeq
  \/ \E l \in ListenerIds : Acknowledge(l)
  \/ \E w \in posts : DeletePost(w)
  \/ \E l \in ListenerIds : DeleteListener(l)

Spec == Init /\ [][Next]_vars
SpecSeq == InitSeq /\ [][NextSeq]_vars
SpecEnrich == InitEnrich /\ [][Next]_vars
SpecPage == InitPage /\ [][NextSeq]_vars
SpecRace == InitRace /\ [][Next]_vars
SpecDelete == InitDelete /\ [][NextDelete]_vars

NextFn ==
  \/ AnalyzeSentiment
  \/ ParseCreatedAt

SpecFn == InitFn /\ [][NextFn]_vars

----------------------------------------------------------------------------
(* Properties *)

InRun(p) == pc[p] \notin {"idle", "collect", "commit", "raise_400", "raise_404"}
Current(p) == run[p].listeners[run[p].i].id

(* The rows the current run of p has inserted and not yet committed. *)
InsertedBy(p) ==
  {w \in tx[p].posts : w.id \notin Ids(posts) /\ w.listener_id = Current(p)}

(* C1: in every reachable state, whatever the interleaving of the scheduled *)
(* and the manual trigger, the committed posts table holds at most one row  *)
(* per (platform, platform_post_id).                                        *)
C1_OneRowPerIdentity ==
  \A a \in posts, b \in posts : PostKey(a) = PostKey(b) => a = b

(* C1 witness: a run is about to upsert an item it took for new, and the    *)
(* other trigger has committed a row for that item since the pre-check.     *)
C1_Witness ==
  \E p \in Procs :
    /\ pc[p] = "upsert"
    /\ run[p].is_new_post
    /\ \E w \in posts : PostKey(w) = << "bluesky", run[p].uri >>

(* C2: a committed post row stays the only row of its identity, and a step  *)
(* changes nothing of it but likes_count: content, author handle, display   *)
(* name, avatar and post_created_at keep the values of the first ingestion. *)
C2_WriteOnce ==
  [][\A a \in posts :
       \E b \in posts' :
         /\ b = [a EXCEPT !.likes_count = b.likes_count]
         /\ \A c \in posts' : PostKey(c) = PostKey(a) => c = b]_vars

(* C2 witness: a row first ingested from the view without text (one like),  *)
(* then re-ingested from a view with a text and no like: the count moved,   *)
(* the content did not.                                                     *)
C2_Witness ==
  \E w \in posts : w.content = NULL /\ w.likes_count = 0

(* C3: when triggers do not overlap, process_post has been called exactly   *)
(* once on every post row, committed or pending: once by the run that       *)
(* inserted it, never again by a re-ingestion.                              *)
C3_EnrichedExactlyWhenInserted ==
  \A p \in Procs : \A w \in ViewPosts(p) : w.enrich_calls = 1

(* C3 witness: a run re-ingests a post that an earlier trigger committed.   *)
C3_Witness ==
  \E p \in Procs :
    /\ pc[p] = "upsert"
    /\ ~run[p].is_new_post
    /\ \E w \in posts : /\ PostKey(w) = << "bluesky", run[p].uri >>
                        /\ w.collected_at < run[p].now
                        /\ w.enrich_calls = 1

(* C4: a save step that reports isNew = true (and so counts the item and    *)
(* calls process_post) is one whose upsert inserted the row: of two runs    *)
(* ingesting the same unseen item, only the inserting one reports it new.   *)
C4_IsNewOnlyForInserter ==
  [][\A p \in Procs :
       (/\ pc[p] = "upsert"
        /\ pc'[p] # "upsert"
        /\ ~tx'[p].aborted
        /\ run[p].is_new_post)
       => ConflictingPosts(p, << "bluesky", run[p].uri >>) = {}]_vars

(* C5: a Backfill run never holds more newly inserted posts than the budget *)
(* INITIAL_SCRAPE_MAX_POSTS, so it never commits more.                      *)
C5_BackfillBudget ==
  \A p \in Procs :
    (InRun(p) /\ run[p].is_initial)
    => Cardinality(InsertedBy(p)) <= INITIAL_SCRAPE_MAX_POSTS

(* C5 witness: a Backfill run that has inserted the whole budget leaves the *)
(* loop while the platform still offers a cursor.                           *)
C5_Witness ==
  \E p \in Procs :
    /\ pc[p] = "mark"
    /\ run[p].is_initial
    /\ Cardinality(InsertedBy(p)) = INITIAL_SCRAPE_MAX_POSTS
    /\ run[p].cursor # 0

(* C6: an Incremental run issues at most one fetch, with a limit of at most *)
(* REGULAR_SCRAPE_LIMIT.                                                    *)
C6_IncrementalOneFetch ==
  \A p \in Procs :
    (InRun(p) /\ ~run[p].is_initial)
    => run[p].fetches <= 1 /\ run[p].limit <= REGULAR_SCRAPE_LIMIT

(* C6 witness: an Incremental run leaves the loop after its one fetch, whose *)
(* response carried a further cursor.                                       *)
C6_Witness ==
  \E p \in Procs :
    /\ pc[p] = "mark"
    /\ ~run[p].is_initial
    /\ run[p].fetches = 1
    /\ run[p].cursor # 0

(* C7: the committed initial_scrape_completed of a listener never goes from *)
(* true to false (so it turns true at most once), and it turns true only in *)
(* the commit of a run that newly inserted at least one post row.           *)
C7_BackfillFlagOneShot ==
  [][\A l \in ListenerIds :
       /\ listeners[l].initial_scrape_completed
            => listeners'[l].initial_scrape_completed
       /\ (~listeners[l].initial_scrape_completed
           /\ listeners'[l].initial_scrape_completed)
            => \E p \in Procs : \E w \in tx[p].posts :
                 /\ w.id \notin Ids(posts)
                 /\ w.listener_id = l
                 /\ w \in posts']_vars

(* C8: a trigger whose collector failed for a listener ends only when that  *)
(* listener was the last of the selected ones: the collector is still       *)
(* invoked for the remaining listeners.                                     *)
C8_FailureDoesNotAbortOthers ==
  [][\A p \in Procs :
       (pc[p] = "error" /\ pc'[p] = "idle")
       => run[p].i = Len(run[p].listeners)]_vars

(* C9: each listener's run is its own unit of work: when a run fails, the   *)
(* session holds no uncommitted write of another listener of the trigger    *)
(* (the earlier runs are committed and stay so), and no commit carries the  *)
(* writes of two listeners.                                                 *)
C9_OwnUnitOfWork ==
  [][/\ \A p \in Procs :
          (pc[p] = "error" /\ pc'[p] # "error")
          => \A l \in ListenerIds \ {Current(p)} : tx[p].cols[l] = {}
     /\ Cardinality({l \in ListenerIds : listeners'[l] # listeners[l]}) <= 1]_vars

(* C10: the step that answers a failed fetch commits nothing and discards   *)
(* every uncommitted write of the run (posts, entities, occurrences,        *)
(* listener columns), and the loop goes on to the next listener or ends:    *)
(* the failed listener is not collected again in this trigger.              *)
C10_FetchErrorRollsBack ==
  [][\A p \in Procs :
       (pc[p] = "error" /\ pc'[p] # "error")
       => /\ UNCHANGED store
          /\ tx'[p] = EmptyTx
          /\ pc'[p] \in {"collect", "idle"}
          /\ pc'[p] = "collect" => run'[p].i = run[p].i + 1]_vars

(* C10 witness: the fetch of a later page raised after the items of the     *)
(* earlier pages were saved and enriched.                                   *)
C10_Witness ==
  \E p \in Procs :
    /\ pc[p] = "error"
    /\ run[p].fetches >= 2
    /\ tx[p].posts # {}
    /\ tx[p].entities # {}
    /\ tx[p].post_entities # {}

C12_EntityStorageFailureKeepsRun ==
  [][\A p \in Procs :
       (pc[p] = "insert_entity" /\ pc'[p] # "insert_entity"
        /\ ~tx[p].aborted /\ tx'[p].aborted)
       => \A w \in tx[p].posts :
            \E v \in tx'[p].posts :
              /\ v.id = w.id
              /\ w.id = run[p].post_id
                   => v.nlp_error # NULL /\ v.nlp_processed_at = run[p].now]_vars

(* The occurrence rows committed for a post. *)
OccurrencesOf(post_id) == {o \in post_entities : o.post_id = post_id}

(* C13: the committed entities table holds at most one row per (entity      *)
(* type, normalized text), and every committed post that was enriched       *)
(* without error has, for each span of its text, an occurrence row of its   *)
(* own that points to the one entity row of the span's (type, text).        *)
C13_OneEntityPerKey ==
  /\ \A a \in entities, b \in entities : EntityKey(a) = EntityKey(b) => a = b
  /\ \A w \in posts :
       (w.content # NULL /\ w.nlp_error = NULL /\ w.nlp_processed_at # 0)
       => LET spans == extract_entities(w.content)
          IN  \A i \in 1..Len(spans) :
                \E o \in OccurrencesOf(w.id), e \in entities :
                  /\ o.start_pos = spans[i].start_pos
                  /\ o.entity_id = e.id
                  /\ EntityKey(e) = << spans[i].entity_type, spans[i].normalized_text >>

(* C13 witness: two committed posts mention the same entity: one entity     *)
(* row, and two occurrence rows of it, one per post.                        *)
C13_Witness ==
  /\ Cardinality(entities) = 1
  /\ \E a \in posts, b \in posts :
       /\ a.id # b.id
       /\ \E oa \in OccurrencesOf(a.id), ob \in OccurrencesOf(b.id) :
            oa.id # ob.id /\ oa.entity_id = ob.entity_id

(* C14: no two occurrence rows share (post, entity, start offset); an       *)
(* occurrence insert that meets an existing row of its key changes nothing  *)
(* and raises nothing; and a post whose text names the entity at two        *)
(* offsets has, once enriched, two occurrence rows.                         *)
C14_OccurrenceIdempotent ==
  /\ [](/\ \A a \in post_entities, b \in post_entities :
             (a.post_id = b.post_id /\ a.entity_id = b.entity_id
              /\ a.start_pos = b.start_pos) => a = b
        /\ \A w \in posts :
             (w.content = EchoView.text /\ w.nlp_error = NULL
              /\ w.nlp_processed_at # 0)
             => Cardinality({o.start_pos : o \in OccurrencesOf(w.id)}) = 2)
  /\ [][\A p \in Procs :
          (/\ pc[p] = "insert_occurrence"
           /\ pc'[p] # "insert_occurrence"
           /\ \E o \in ViewPostEntities(p) :
                /\ o.post_id = run[p].post_id
                /\ o.start_pos = Head(run[p].ents).start_pos)
          => /\ tx'[p].post_entities = tx[p].post_entities
             /\ ~tx'[p].aborted
             /\ pc'[p] # "error"]_vars

(* C14 witness: process_post runs a second time on a committed post and is  *)
(* about to record a span whose occurrence row exists, next to the row of   *)
(* the other offset.                                                        *)
C14_Witness ==
  \E p \in Procs :
    /\ pc[p] = "insert_occurrence"
    /\ \E o \in post_entities :
         /\ o.post_id = run[p].post_id
         /\ o.start_pos = Head(run[p].ents).start_pos
    /\ Cardinality(OccurrencesOf(run[p].post_id)) = 2

(* C15: a get-or-create of an entity completes without error, whatever the  *)
(* other session does: the step leaves the transaction usable, goes on to   *)
(* the occurrence insert, and the session then sees exactly one row of the  *)
(* (type, normalized text).                                                 *)
C15_GetOrCreateRaceSafe ==
  [][\A p \in Procs :
       (pc[p] = "insert_entity" /\ pc'[p] # "insert_entity")
       => /\ ~tx'[p].aborted
          /\ pc'[p] = "insert_occurrence"
          /\ Cardinality({w \in entities' \cup tx'[p].entities :
               EntityKey(w) = << Head(run[p].ents).entity_type,
                                 Head(run[p].ents).normalized_text >>}) = 1]_vars

(* The post rows session p has inserted for listener l and not committed. *)
NewlyInserted(p, l) ==
  {w \in tx[p].posts : w.id \notin Ids(posts) /\ w.listener_id = l}

(* C16: the commit of a listener's run sets last_polled_at to the time of   *)
(* the run, and turns has_new_content to true exactly when the run newly    *)
(* inserted at least one post row.                                          *)
C16_PolledFields ==
  [][\A l \in ListenerIds :
       listeners'[l] # listeners[l]
       => \E p \in Procs :
            /\ pc[p] \in {"polled", "commit"}
            /\ pc'[p] # pc[p]
            /\ listeners'[l].last_polled_at = run[p].now
            /\ listeners'[l].has_new_content
                 <=> (listeners[l].has_new_content \/ NewlyInserted(p, l) # {})]_vars

(* C17: the step in which saving an item raises leaves the posts saved      *)
(* before it among the run's writes, does not count the item, and goes on   *)
(* to the next item, the next page or the end of the loop.                  *)
C17_ItemErrorKeepsRun ==
  [][\A p \in Procs :
       (pc[p] = "upsert" /\ pc'[p] # "upsert" /\ ~tx[p].aborted /\ tx'[p].aborted)
       => /\ tx[p].posts \subseteq tx'[p].posts
          /\ run'[p].posts_collected = run[p].posts_collected
          /\ pc'[p] \in {"select_post", "fetch", "mark"}]_vars

(* C18: without credentials no trigger fetches, writes a post or ends in an *)
(* error response: every run counts zero posts.                             *)
C18_NoCredentialsNonFatal ==
  ~env.configured
  => /\ posts = {}
     /\ \A p \in Procs :
          /\ pc[p] \notin {"fetch", "select_post", "upsert", "error",
                           "raise_400", "raise_404"}
          /\ tx[p].posts = {}
          /\ run[p].total_posts = 0

(* C19: an upsert that meets an existing row of its (platform, native id)   *)
(* writes a version of it with the counters and collected_at of this        *)
(* ingestion, and every other column as it was.                             *)
C19_ConflictUpdateFrame ==
  [][\A p \in Procs :
       LET key == << "bluesky", run[p].uri >>
       IN  (/\ pc[p] = "upsert"
            /\ pc'[p] # "upsert"
            /\ ~tx'[p].aborted
            /\ ConflictingPosts(p, key) # {})
           => \A old \in ConflictingPosts(p, key) :
                [old EXCEPT !.likes_count = run[p].post_view.like_count,
                            !.collected_at = run[p].now] \in tx'[p].posts]_vars

(* C20: the commit of a Backfill run (the committed flag is false) leaves   *)
(* initial_scrape_completed true exactly when the run newly inserted at     *)
(* least one post row; otherwise the flag stays false and the listener's    *)
(* next run is a Backfill run again.                                        *)
C20_BackfillFlagFollowsInserts ==
  [][\A l \in ListenerIds :
       (listeners'[l] # listeners[l] /\ ~listeners[l].initial_scrape_completed)
       => (listeners'[l].initial_scrape_completed
           <=> \E p \in Procs : \E w \in NewlyInserted(p, l) : w \in posts')]_vars

----------------------------------------------------------------------------
(* Pagination and run accounting *)

(* The step in which p commits: the scheduled job after a listener's run,   *)
(* the manual request after its loop.                                       *)
Commits(p) ==
  /\ pc[p] = (IF p = "sched" THEN "polled" ELSE "commit")
  /\ ~tx[p].aborted
  /\ tx'[p] = EmptyTx

(* The number of posts the trigger reports for the run it commits. *)
Reported(p) ==
  IF p = "sched" THEN run[p].posts_collected ELSE run[p].total_posts

(* C21: a keyword listener's run over an empty store whose pages hold only  *)
(* unseen items persists all of them and sets initial_scrape_completed and  *)
(* has_new_content; a later run whose single page mixes stored and unseen   *)
(* items adds only the unseen ones, enriches only those, and reports their  *)
(* number. Stated for every commit: the reported count is the number of     *)
(* rows the run newly inserted, the table grows by exactly that number,     *)
(* the new rows were enriched once and the stored ones not again, and a     *)
(* run that inserted something leaves both flags true.                      *)
C21_RunOutcome ==
  [][\A p \in Procs :
       Commits(p) =>
         LET l == Current(p)
             new == NewlyInserted(p, l)
         IN  /\ Reported(p) = Cardinality(new)
             /\ Cardinality(posts') = Cardinality(posts) + Reported(p)
             /\ \A w \in new : w \in posts' /\ w.enrich_calls = 1
             /\ \A w \in posts : \E b \in posts' :
                  b.id = w.id /\ b.enrich_calls = w.enrich_calls
             /\ Reported(p) > 0 =>
                  /\ listeners'[l].initial_scrape_completed
                  /\ listeners'[l].has_new_content
             /\ Reported(p) = 0 =>
                  listeners'[l].initial_scrape_completed
                    = listeners[l].initial_scrape_completed]_vars

(* C21 witness: the first run filled the empty store with the items of its  *)
(* pages (a full page, then a shorter one) and set both flags; the second   *)
(* run, Incremental, is about to commit after one fetch whose page held a   *)
(* stored item and an unseen one: one post counted, two rows written.       *)
C21_Witness ==
  \E p \in Procs :
    /\ pc[p] = "polled"
    /\ clock = 2
    /\ Cardinality(posts) = INITIAL_SCRAPE_MAX_POSTS
    /\ \A w \in posts : w.collected_at = 1 /\ w.listener_id = 1
    /\ listeners[1].initial_scrape_completed
    /\ listeners[1].has_new_content
    /\ ~run[p].is_initial
    /\ run[p].fetches = 1
    /\ run[p].posts_collected = 1
    /\ Cardinality(tx[p].posts) = 2
    /\ Cardinality(NewlyInserted(p, 1)) = 1

(* C22: a Backfill run ends after a number of fetches bounded by the budget *)
(* and the page size, also when the platform answers every fetch with a     *)
(* non-empty page of stored items and a further cursor. The most fetches a  *)
(* budget allows is one per budgeted item (every page adding one new row);  *)
(* no Backfill run has issued more than INITIAL_SCRAPE_MAX_POSTS fetches.   *)
C22_BackfillFetchBound ==
  \A p \in Procs :
    (InRun(p) /\ run[p].is_initial)
    => run[p].fetches <= INITIAL_SCRAPE_MAX_POSTS

(* C23: in a Backfill run the fetches are sequential and chained. The first *)
(* fetch carries no cursor; a run goes back to fetching only when every     *)
(* item of the page has been through the save step and the response had a   *)
(* cursor, which the next fetch carries (the cursor of fetch k is k); no    *)
(* fetch follows an empty page.                                             *)
C23_FetchesChained ==
  [][\A p \in Procs :
       /\ (pc'[p] = "fetch" /\ pc[p] = "collect")
            => run'[p].cursor = 0 /\ run'[p].fetches = 0
       /\ (pc'[p] = "fetch" /\ pc[p] \notin {"fetch", "collect"})
            => /\ run[p].is_initial
               /\ run[p].page_left = 1
               /\ run'[p].page_left = 0
               /\ run[p].response_cursor # 0
               /\ run'[p].cursor = run[p].response_cursor
       /\ (pc[p] = "fetch" /\ pc'[p] # "fetch")
            => /\ run'[p].fetches = run[p].fetches + 1
               /\ run[p].cursor = run[p].fetches
               /\ run[p].page_left = 0
               /\ run'[p].page_left = 0 => pc'[p] \in {"mark", "error"}]_vars

(* C23 witness: a Backfill run is about to issue its third fetch, carrying  *)
(* the cursor of the second.                                                *)
C23_Witness ==
  \E p \in Procs :
    /\ pc[p] = "fetch"
    /\ run[p].is_initial
    /\ run[p].fetches = 2
    /\ run[p].cursor = 2

(* C24: every fetch asks for a limit between 1 and PAGE_SIZE; in a Backfill *)
(* run the limit is min(PAGE_SIZE, budget - rows the run has newly inserted *)
(* so far), in an Incremental run it is REGULAR_SCRAPE_LIMIT.               *)
C24_FetchLimit ==
  [][\A p \in Procs :
       (pc[p] = "fetch" /\ pc'[p] # "fetch")
       => LET limit == run'[p].limit
              inserted == Cardinality(InsertedBy(p))
          IN  /\ 1 <= limit
              /\ limit <= PAGE_SIZE
              /\ limit = IF run[p].is_initial
                           THEN Min(PAGE_SIZE, INITIAL_SCRAPE_MAX_POSTS - inserted)
                           ELSE REGULAR_SCRAPE_LIMIT]_vars

(* C24 witness: a Backfill run that has inserted all of its budget but one  *)
(* has asked for a single item.                                             *)
C24_Witness ==
  \E p \in Procs :
    /\ pc[p] = "select_post"
    /\ run[p].is_initial
    /\ run[p].limit = 1
    /\ Cardinality(InsertedBy(p)) = INITIAL_SCRAPE_MAX_POSTS - 1

(* C25: the mode of a run is fixed when the run starts and does not change  *)
(* during it; a run that starts for a listener whose committed              *)
(* initial_scrape_completed is true is Incremental, and an Incremental run  *)
(* issues one fetch at most, so nothing is paginated again.                 *)
C25_IncrementalAfterBackfill ==
  [][\A p \in Procs :
       /\ (pc[p] = "collect" /\ pc'[p] = "fetch"
           /\ listeners[Current(p)].initial_scrape_completed)
            => ~run'[p].is_initial
       /\ (InRun(p) /\ pc'[p] \notin {"idle", "collect", "commit"})
            => run'[p].is_initial = run[p].is_initial
       /\ (pc[p] = "fetch" /\ pc'[p] # "fetch" /\ ~run[p].is_initial)
            => run[p].fetches = 0]_vars

----------------------------------------------------------------------------
(* Enrichment *)

(* The step in which p's upsert is followed by process_post on a row that   *)
(* the pre-check took for new.                                              *)
Enriches(p) ==
  /\ pc[p] = "upsert"
  /\ pc'[p] # "upsert"
  /\ run[p].is_new_post
  /\ ~tx'[p].aborted

(* The row of the item p is saving, as its session sees it after the step. *)
SavedRow(p) ==
  CHOOSE w \in tx'[p].posts : PostKey(w) = << "bluesky", run[p].uri >>

Succeeds(p) ==
  /\ pc[p] = "insert_occurrence"
  /\ Len(run[p].ents) = 1
  /\ pc'[p] # "insert_occurrence"
  /\ ~tx'[p].aborted

(* The occurrences of a span of post `id` that session p sees after the     *)
(* step: rows at the span's offset whose entity has the span's key.         *)
SpanOccurrences(p, id, e) ==
  {o \in post_entities \cup tx'[p].post_entities :
     /\ o.post_id = id
     /\ o.start_pos = e.start_pos
     /\ \E en \in entities \cup tx'[p].entities :
          /\ en.id = o.entity_id
          /\ EntityKey(en) = << e.entity_type, e.normalized_text >>}

C28_EntityWriteOnce ==
  [][/\ \A e \in entities : e \in entities'
     /\ \A a \in entities', b \in entities' :
          (a.id = b.id \/ EntityKey(a) = EntityKey(b)) => a = b
     /\ \A p \in Procs : \A e \in tx[p].entities :
          \/ e \in tx'[p].entities
          \/ tx'[p].entities = {}]_vars

(* C28 witness: a get-or-create is about to run for a span whose display    *)
(* text differs from the one stored for its (type, normalized text).        *)
C28_Witness ==
  \E p \in Procs :
    /\ pc[p] = "insert_occurrence"
    /\ \E w \in entities :
         /\ EntityKey(w) = << Head(run[p].ents).entity_type,
                              Head(run[p].ents).normalized_text >>
         /\ w.display_text # Head(run[p].ents).text

----------------------------------------------------------------------------
(* Pure functions *)

C30_CreatedAtIsUtc ==
  (call.fn = "parse_created_at" /\ call.done)
  => call.post_created_at =
       (IF call.created_at.kind = "iso"
          THEN [set |-> TRUE,
                value |-> call.created_at.wall
                            - (IF call.created_at.zulu THEN 0
                               ELSE call.created_at.offset)]
          ELSE Unset)

----------------------------------------------------------------------------
(* Selection of listeners *)

(* The where clause of main.py:44-49 and 153-156. *)
Eligible(l) ==
  listeners[l].is_active /\ listeners[l].platform \in {"bluesky", "all"}

(* C31: a trigger invokes the collector only for listeners that are active  *)
(* and whose platform is bluesky or "all". For every other listener no      *)
(* trigger holds it among its selected listeners (so none fetches for it),  *)
(* no post row refers to it, and its last_polled_at, has_new_content and    *)
(* initial_scrape_completed are as they were created.                       *)
C31_OnlyEligibleListeners ==
  \A l \in ListenerIds :
    ~Eligible(l) =>
      /\ listeners[l].last_polled_at = 0
      /\ ~listeners[l].has_new_content
      /\ ~listeners[l].initial_scrape_completed
      /\ \A w \in posts : w.listener_id # l
      /\ \A p \in Procs :
           /\ \A i \in 1..Len(run[p].listeners) : run[p].listeners[i].id # l
           /\ tx[p].cols[l] = {}
           /\ \A w \in tx[p].posts : w.listener_id # l

(* C31 witness: a trigger for all listeners has collected for listener 1    *)
(* and is about to commit, while an active listener of another platform     *)
(* exists.                                                                  *)
C31_Witness ==
  /\ pc["sched"] = "polled"
  /\ run["sched"].posts_collected > 0
  /\ \E l \in ListenerIds :
       listeners[l].is_active /\ listeners[l].platform = "threads"

(* A manual request with a listener_id is under way. *)
Scoped ==
  pc["manual"] \notin {"idle", "raise_400"} /\ run["manual"].listener_id # 0

(* What holds during a scoped request. *)
ScopedToOne ==
  LET p == "manual"
      id == run[p].listener_id
  IN  IF id \in ListenerIds /\ Eligible(id)
        THEN /\ pc[p] # "raise_404"
             /\ Len(run[p].listeners) = 1
             /\ run[p].listeners[1].id = id
             /\ \A l \in ListenerIds \ {id} : tx[p].cols[l] = {}
             /\ \A w \in tx[p].posts :
                  w.id \notin Ids(posts) => w.listener_id = id
        ELSE /\ pc[p] = "raise_404"
             /\ tx[p] = EmptyTx
             /\ run[p].fetches = 0

(* C32: a manual trigger scoped to one listener id runs the collector for   *)
(* that listener only and changes no field of any other listener; when the  *)
(* id names no eligible listener the request ends with an error (404),      *)
(* having fetched nothing and written nothing.                              *)
C32_ScopedTrigger ==
  /\ [](Scoped => ScopedToOne)
  /\ [][Scoped =>
          /\ \A l \in ListenerIds \ {run["manual"].listener_id} :
               listeners'[l] = listeners[l]
          /\ pc["manual"] = "raise_404" => UNCHANGED store]_vars

(* C32 witness: a manual trigger scoped to listener 2 is about to commit    *)
(* what it collected, and listener 1 is eligible too.                       *)
C32_Witness ==
  /\ pc["manual"] = "commit"
  /\ run["manual"].listener_id = 2
  /\ run["manual"].total_posts > 0
  /\ Eligible(1)
  /\ Eligible(2)

(* The step that ends trigger p with a reported total: the scheduled loop   *)
(* leaves its last listener (main.py:56-66), the manual request commits     *)
(* (main.py:179-186).                                                       *)
EndsTrigger(p) ==
  /\ pc'[p] = "idle"
  /\ pc[p] \in (IF p = "sched" THEN {"polled", "error"} ELSE {"commit"})

(* The total the trigger reports at that step: total_posts after the last   *)
(* `total_posts += count`.                                                  *)
ReportedTotal(p) ==
  IF p = "sched" /\ pc[p] = "polled"
    THEN run[p].total_posts + run[p].posts_collected
    ELSE run[p].total_posts

(* The rows trigger p inserted that are committed after the step: a row     *)
(* gets its collected_at at the insert only.                                *)
CommittedInserts(p) ==
  {w \in posts' : w.collected_at = run[p].now}

(* C33: the total a trigger reports equals the number of post rows that     *)
(* the trigger newly inserted and committed; re-ingested rows and rows of   *)
(* rolled-back runs are not counted.                                        *)
C33_ReportedTotal ==
  [][\A p \in Procs :
       EndsTrigger(p) => ReportedTotal(p) = Cardinality(CommittedInserts(p))]_vars

(* The committed rows of the item p is saving that belong to a listener     *)
(* other than the one p collects for.                                       *)
FoundByOther(p) ==
  {w \in posts : /\ PostKey(w) = << "bluesky", run[p].uri >>
                 /\ w.listener_id # Current(p)}

(* C34: a post found by two listeners stays attributed to the listener      *)
(* whose run inserted it first. When a later run of another listener saves  *)
(* the same item, the key keeps its one row with the listener reference it  *)
(* had, the run does not count the item and writes no listener column in    *)
(* that step; and a run that inserted no row of its own sets neither        *)
(* has_new_content nor initial_scrape_completed.                            *)
C34_FirstInserterKeepsPost ==
  [][\A p \in Procs :
       /\ (pc[p] = "upsert" /\ pc'[p] # "upsert" /\ ~tx'[p].aborted
           /\ FoundByOther(p) # {})
          => /\ \A v \in posts \cup tx'[p].posts :
                  PostKey(v) = << "bluesky", run[p].uri >>
                  => \E w \in FoundByOther(p) :
                       v.id = w.id /\ v.listener_id = w.listener_id
             /\ run'[p].posts_collected = run[p].posts_collected
             /\ tx'[p].cols = tx[p].cols
       /\ (pc[p] \in {"mark", "polled"} /\ pc'[p] # pc[p] /\ ~tx[p].aborted
           /\ NewlyInserted(p, Current(p)) = {})
          => /\ tx'[p].cols[Current(p)] \subseteq {"last_polled_at"}
             /\ listeners'[Current(p)].has_new_content
                  = listeners[Current(p)].has_new_content
             /\ listeners'[Current(p)].initial_scrape_completed
                  = listeners[Current(p)].initial_scrape_completed]_vars

(* C34 witness: a run in Backfill that has collected nothing yet is about   *)
(* to save an item whose committed row belongs to the other listener.       *)
C34_Witness ==
  \E p \in Procs :
    /\ pc[p] = "upsert"
    /\ ~tx[p].aborted
    /\ run[p].is_initial
    /\ run[p].posts_collected = 0
    /\ FoundByOther(p) # {}

(* The rows of the item p is saving that p's own transaction already holds: *)
(* the run has saved the item before.                                       *)
SavedBefore(p) ==
  {w \in tx[p].posts : PostKey(w) = << "bluesky", run[p].uri >>}

(* C35: within a run, an item the search returns again, on the same page or *)
(* on a later one, is not inserted, counted or enriched a second time: the  *)
(* save of an item the run has saved before leaves the key with its one     *)
(* row, the count, the row's enrichment and the entity tables as they were. *)
C35_DuplicateItemOnce ==
  [][\A p \in Procs :
       (pc[p] = "upsert" /\ pc'[p] # "upsert" /\ ~tx'[p].aborted
        /\ SavedBefore(p) # {})
       => /\ \A v \in tx'[p].posts :
               PostKey(v) = << "bluesky", run[p].uri >>
               => \E w \in SavedBefore(p) :
                    /\ v.id = w.id
                    /\ v.enrich_calls = w.enrich_calls
                    /\ v.nlp_processed_at = w.nlp_processed_at
          /\ Cardinality(tx'[p].posts) = Cardinality(tx[p].posts)
          /\ run'[p].posts_collected = run[p].posts_collected
          /\ pc'[p] # "insert_entity"
          /\ tx'[p].entities = tx[p].entities
          /\ tx'[p].post_entities = tx[p].post_entities]_vars

(* C35 witness: a run is about to save an item that it inserted and         *)
(* enriched earlier in the same run, on a page after the first.             *)
C35_Witness ==
  \E p \in Procs :
    /\ pc[p] = "upsert"
    /\ run[p].fetches > 1
    /\ run[p].posts_collected > 0
    /\ \E w \in SavedBefore(p) :
         /\ w.id \notin Ids(posts)
         /\ w.listener_id = Current(p)
         /\ w.enrich_calls = 1

(* The step in which a call of process_post by p returns: the step of the   *)
(* upsert when no entity is to be stored, else the step that stores the     *)
(* last span, in a transaction that is still usable.                        *)
ProcessPostReturns(p) ==
  /\ \/ pc[p] = "upsert" /\ run[p].is_new_post
     \/ pc[p] \in {"insert_entity", "insert_occurrence"}
  /\ pc'[p] \notin {"upsert", "insert_entity", "insert_occurrence"}
  /\ ~tx'[p].aborted

(* C36: a call of process_post on a post with content writes               *)
(* sentiment_score and sentiment_label exactly when it reports success      *)
(* (nlp_error unset): the row it leaves has a score and a label if and only *)
(* if it has no nlp_error, and a call that failed has added no occurrence.  *)
C36_SentimentIffSuccess ==
  [][\A p \in Procs :
       (ProcessPostReturns(p) /\ SavedRow(p).content # NULL)
       => /\ SavedRow(p).sentiment_score # {} <=> SavedRow(p).nlp_error = NULL
          /\ SavedRow(p).sentiment_label # NULL <=> SavedRow(p).nlp_error = NULL
          /\ SavedRow(p).nlp_error # NULL
               => tx'[p].post_entities = tx[p].post_entities]_vars

(* C38: a listener's last_polled_at changes only in the commit of a run in  *)
(* which at least one fetch was issued for that listener; a run that        *)
(* returned zero without fetching leaves it as it was.                      *)
C38_PolledOnlyAfterFetch ==
  [][\A l \in ListenerIds :
       listeners'[l].last_polled_at # listeners[l].last_polled_at
       => \E p \in Procs :
            /\ pc[p] \in {"polled", "commit"}
            /\ pc'[p] # pc[p]
            /\ env.configured
            /\ p = "sched" => Current(p) = l /\ run[p].fetches >= 1]_vars

(* C37: every fetch is issued through a client on which login succeeded:    *)
(* whenever a run is about to fetch, or is between the fetches of its       *)
(* pages, the collector's client has a session; after a login that raised,  *)
(* the next run logs in again before it fetches.                            *)
C37_FetchAfterLogin ==
  \A p \in Procs :
    pc[p] \in {"fetch", "select_post", "upsert"} => client = LoggedIn

(* Every occurrence row, committed or pending in a session, refers to a     *)
(* post row and an entity row that exist where the occurrence is visible.   *)
OccurrencesRefer ==
  /\ \A o \in post_entities :
       /\ o.post_id \in Ids(posts)
       /\ o.entity_id \in Ids(entities)
  /\ \A p \in Procs : \A o \in tx[p].post_entities :
       /\ o.post_id \in Ids(ViewPosts(p))
       /\ o.entity_id \in Ids(ViewEntities(p))

(* C39: after any sequence of ingestions, enrichments, post deletions and   *)
(* listener deletions every occurrence row refers to an existing post and   *)
(* an existing entity; every post refers to an existing listener; a step    *)
(* that removes a post row removes all occurrences of that post, and no     *)
(* step removes an entity row.                                              *)
C39_OccurrencesRefer ==
  /\ [](OccurrencesRefer /\ \A w \in posts : Exists(w.listener_id))
  /\ [][/\ \A w \in posts :
             w.id \notin Ids(posts')
             => \A o \in post_entities' : o.post_id # w.id
        /\ entities \subseteq entities']_vars

(* C39 witness: a listener was deleted and no post is left, while another   *)
(* listener's trigger has just put a post with two occurrences back; the    *)
(* entity rows are all still there.                                         *)
C39_Witness ==
  /\ \E l \in ListenerIds : ~Exists(l)
  /\ posts = {}
  /\ post_entities = {}
  /\ entities # {}
  /\ \E p \in Procs : Cardinality(tx[p].post_entities) >= 2

====
